---- MODULE Spec2Model ----
(***************************************************************************)
(* Model of the make-react-starter server: the server bootstraps           *)
(* (server/app.ts, the setupVite/serveStatic bootstrap, server/dev.ts in   *)
(* its SPA and SSR forms), the Express middleware stack they assemble, the *)
(* API router (server/routes/api.ts), the catch-all template handlers and  *)
(* the SSR renderer.                                                       *)
(*                                                                         *)
(* Strings that the code inspects character by character (name, email)     *)
(* are sequences of one-character strings.  HTML documents are sequences   *)
(* of tokens, one token per element of the template the code can touch.    *)
(* A request is (method, path, parsed body): the body parsers are stages   *)
(* of the stack that hand the parsed body on.                              *)
(***************************************************************************)
EXTENDS Integers, Sequences, FiniteSets, TLC

(* ------------------------------ bounds -------------------------------- *)

\* milliseconds the clock may advance in one run
MaxTicks == 1

\* clients that send a POST /api/users at the same time
MaxClients == 2

(* --------------------------- string helpers --------------------------- *)

Upper == <<"A","B","C","D","E","F","G","H","I","J","K","L","M",
           "N","O","P","Q","R","S","T","U","V","W","X","Y","Z">>
Lower == <<"a","b","c","d","e","f","g","h","i","j","k","l","m",
           "n","o","p","q","r","s","t","u","v","w","x","y","z">>

\* \s of the regular expressions and of String.prototype.trim
IsSpace(c) == c \in {" ", "\t", "\n"}

ToLowerChar(c) ==
  IF \E i \in 1..26 : Upper[i] = c
  THEN Lower[CHOOSE i \in 1..26 : Upper[i] = c]
  ELSE c

\* String.prototype.toLowerCase
ToLowerCase(s) == [i \in 1..Len(s) |-> ToLowerChar(s[i])]

RECURSIVE TrimLeft(_)
TrimLeft(s) ==
  IF s # <<>> /\ IsSpace(Head(s)) THEN TrimLeft(Tail(s)) ELSE s

RECURSIVE TrimRight(_)
TrimRight(s) ==
  IF s # <<>> /\ IsSpace(s[Len(s)])
  THEN TrimRight(SubSeq(s, 1, Len(s) - 1)) ELSE s

\* String.prototype.trim
Trim(s) == TrimRight(TrimLeft(s))

\* /^[^\s@]+@[^\s@]+\.[^\s@]+$/ : no white space, exactly one '@', at least
\* one character before it, and a '.' after it that has at least one
\* character on each side
isValidEmail(s) ==
  /\ \A i \in 1..Len(s) : ~IsSpace(s[i])
  /\ Cardinality({i \in 1..Len(s) : s[i] = "@"}) = 1
  /\ \E a \in 1..Len(s) :
       /\ s[a] = "@"
       /\ a > 1
       /\ \E d \in (a + 2)..(Len(s) - 1) : s[d] = "."

(* --------------------------- JSON body values ------------------------- *)

\* a field of req.body: absent, a number, or a string
Undefined == [t |-> "undefined", n |-> 0, s |-> <<>>]
Num(k)    == [t |-> "number",    n |-> k, s |-> <<>>]
Str(chars) == [t |-> "string",   n |-> 0, s |-> chars]

\* JavaScript truthiness of a body field
Truthy(v) ==
  CASE v.t = "undefined" -> FALSE
    [] v.t = "number"    -> v.n # 0
    [] v.t = "string"    -> v.s # <<>>


(* ------------------------------ state --------------------------------- *)

VARIABLES
  variant,     \* which bootstrap file runs
  nodeEnv,     \* process.env.NODE_ENV
  isDev,       \* module constant isDev of the universal bootstraps
  distExists,  \* does the directory dist/client exist
  pc,          \* position of createServer / createDevServer in its program
  stack,       \* the Express middleware stack, in registration order
  listening,   \* has listen() bound the port
  exitCode,    \* -1 while the process runs, else the status of process.exit
  mockUsers,   \* the in-memory user store of routes/api.ts
  now,         \* the latest reading of the clock (Date.now(), new Date())
  lazy,        \* load status of the React.lazy page components
  nreq,        \* number of requests handled so far, modulo 2
  last,        \* the request handled last and the response it got
  reading,     \* the template read a catch-all has issued and not finished
  inflight,    \* per client, its POST /api/users on the way to the handler
  demo         \* the API demo page in a browser: its React state, its calls

vars == <<variant, nodeEnv, isDev, distExists, pc, stack,
          listening, exitCode, mockUsers, now, lazy, nreq, last, reading,
          inflight, demo>>

\* no template read is under way
NoRead == [stage |-> "", sync |-> FALSE]

Variants == {"app", "unified", "devSpa", "devSsr"}

\* server/dev.ts never looks at NODE_ENV: it is the development server
DevMode == IF variant \in {"devSpa", "devSsr"} THEN TRUE ELSE isDev

(* ----------------------------- bootstrap ------------------------------ *)

\* a plausible slip: the catch-all registered before the routes
AppProgramCatchAllFirst(dev) ==
  IF dev
  THEN <<"parsers", "createVite", "vite", "catchAll", "api", "listen">>
  ELSE <<"parsers", "static", "catchAll", "api", "listen">>

\* a plausible slip: app.listen() called before the catch-all is
\* registered
AppProgramListenEarly(dev) ==
  IF dev
  THEN <<"parsers", "createVite", "vite", "api", "listen", "catchAll">>
  ELSE <<"parsers", "static", "api", "listen", "catchAll">>

\* the statements of createServer in server/app.ts that touch the app
AppProgram(dev) ==
  IF dev
  THEN <<"parsers", "createVite", "vite", "api", "catchAll", "listen">>
  ELSE <<"parsers", "static", "api", "catchAll", "listen">>

\* a plausible slip: listen() called before the asset stage and the
\* catch-all are registered
UnifiedProgramListenEarly(dev) ==
  IF dev
  THEN <<"parsers", "api", "listen", "createVite", "vite", "catchAll">>
  ELSE <<"parsers", "api", "listen", "checkDist", "static", "catchAll">>

\* createServer of the bootstrap built on setupVite / serveStatic
UnifiedProgram(dev) ==
  IF dev
  THEN <<"parsers", "api", "createVite", "vite", "catchAll", "listen">>
  ELSE <<"parsers", "api", "checkDist", "static", "catchAll", "listen">>

\* a plausible slip: the routes mounted before the Vite middleware
DevProgramApiFirst ==
  <<"createVite", "parsers", "api", "vite", "catchAll", "listen">>

\* createDevServer of server/dev.ts (both forms)
DevProgram == <<"createVite", "vite", "parsers", "api", "catchAll", "listen">>

Program ==
  CASE variant = "app"     -> AppProgram(isDev)
    [] variant = "unified" -> UnifiedProgram(isDev)
    [] OTHER               -> DevProgram

\* the catch-all handler each bootstrap registers
CatchAllStage ==
  CASE variant = "app"     -> IF isDev THEN "catchAll:devTemplate"
                                       ELSE "catchAll:prodTemplate"
    [] variant = "unified" -> IF isDev THEN "catchAll:viteTemplate"
                                       ELSE "catchAll:sendFile"
    [] variant = "devSpa"  -> "catchAll:devTemplate"
    [] variant = "devSsr"  -> "catchAll:ssrTemplate"

CatchAllStages == {"catchAll:devTemplate", "catchAll:prodTemplate",
                   "catchAll:viteTemplate", "catchAll:sendFile",
                   "catchAll:ssrTemplate"}

Running == exitCode = -1
Starting == Running /\ pc \in 1..Len(Program)
Op == Program[pc]

\* app.use(express.json()); app.use(express.urlencoded({ extended: true }))
UseParsers ==
  /\ Starting /\ Op = "parsers"
  /\ stack' = stack \o <<"json", "urlencoded">>
  /\ pc' = pc + 1
  /\ UNCHANGED <<demo, inflight, reading, variant, nodeEnv, isDev, distExists,
                 listening, exitCode, mockUsers, now, lazy, nreq, last>>

\* await createViteServer(...): resolves, or rejects and createServer throws
CreateViteServer ==
  /\ Starting /\ Op = "createVite"
  /\ \E ok \in BOOLEAN : pc' = IF ok THEN pc + 1 ELSE 0
  /\ UNCHANGED <<demo, inflight, reading, variant, nodeEnv, isDev, distExists,
                 stack, listening, exitCode, mockUsers, now, lazy, nreq, last>>

\* app.use(vite.middlewares)
UseViteMiddlewares ==
  /\ Starting /\ Op = "vite"
  /\ stack' = Append(stack, "vite")
  /\ pc' = pc + 1
  /\ UNCHANGED <<demo, inflight, reading, variant, nodeEnv, isDev, distExists,
                 listening, exitCode, mockUsers, now, lazy, nreq, last>>

\* registerRoutes(app) / app.use('/api', apiRoutes)
registerRoutes ==
  /\ Starting /\ Op = "api"
  /\ stack' = Append(stack, "api")
  /\ pc' = pc + 1
  /\ UNCHANGED <<demo, inflight, reading, variant, nodeEnv, isDev, distExists,
                 listening, exitCode, mockUsers, now, lazy, nreq, last>>

\* serveStatic: if (!fs.existsSync(distPath)) throw new Error(...)
DistCheckPasses(exists) == exists

CheckDist ==
  /\ Starting /\ Op = "checkDist"
  /\ pc' = IF DistCheckPasses(distExists) THEN pc + 1 ELSE 0
  /\ UNCHANGED <<demo, inflight, reading, variant, nodeEnv, isDev, distExists,
                 stack, listening, exitCode, mockUsers, now, lazy, nreq, last>>

\* app.use(express.static(distPath)): never throws, whatever is on disk
UseStatic ==
  /\ Starting /\ Op = "static"
  /\ stack' = Append(stack, "static")
  /\ pc' = pc + 1
  /\ UNCHANGED <<demo, inflight, reading, variant, nodeEnv, isDev, distExists,
                 listening, exitCode, mockUsers, now, lazy, nreq, last>>

\* app.use('*', ...) / app.get('*', ...)
UseCatchAll ==
  /\ Starting /\ Op = "catchAll"
  /\ stack' = Append(stack, CatchAllStage)
  /\ pc' = pc + 1
  /\ UNCHANGED <<demo, inflight, reading, variant, nodeEnv, isDev, distExists,
                 listening, exitCode, mockUsers, now, lazy, nreq, last>>

\* app.listen(PORT, ...) / server.listen(PORT, ...)
Listen ==
  /\ Starting /\ Op = "listen"
  /\ listening' = TRUE
  /\ pc' = pc + 1
  /\ UNCHANGED <<demo, inflight, reading, variant, nodeEnv, isDev, distExists,
                 stack, exitCode, mockUsers, now, lazy, nreq, last>>

\* createServer().catch((error) => { console.error(...); process.exit(1) })
StartupFailed ==
  /\ Running /\ pc = 0
  /\ exitCode' = 1
  /\ UNCHANGED <<demo, inflight, reading, variant, nodeEnv, isDev, distExists,
                 pc, stack, listening, mockUsers, now, lazy, nreq, last>>


(* --------------------------- requests, paths -------------------------- *)

\* a URL path is the sequence of its segments: "/" is <<>>
Paths == { <<>>, <<"nope">>, <<"$&">>, <<"<script>">>,
           <<"assets", "app.js">>, <<"client", "main.tsx">>,
           <<"api", "health">>, <<"api", "users">>, <<"api", "nothing">> }

Methods == {"GET", "POST"}

\* files of the build output that express.static can serve
BuiltAssets == { <<"assets", "app.js">> }

\* source modules that the Vite dev middleware transforms and serves
DevModules == { <<"client", "main.tsx">> }

\* the mount path '/api' of app.use('/api', apiRoutes)
UnderApiMount(path) == Len(path) >= 1 /\ Head(path) = "api"

\* the routes of the router, relative to its mount path
RouterRoutes ==
  { <<"GET", <<"health">> >>, <<"GET", <<"users">> >>,
    <<"POST", <<"users">> >> }

Min(S) == CHOOSE m \in S : \A k \in S : m <= k

\* what a read of index.html finds: dist/client/index.html in production
\* (missing when the directory is), client/index.html in development
ReadOutcomes ==
  IF ~DevMode /\ ~distExists THEN {"missing"}
  ELSE {"ok", "missing", "unreadable"}

\* does a stage of the stack answer the request, or call next();
\* express.static answers "/" with index.html when that file is there
Handles(stage, method, path, read) ==
  CASE stage \in {"json", "urlencoded"} -> FALSE
    [] stage = "vite"   -> method = "GET" /\ path \in DevModules
    [] stage = "static" ->
         /\ method = "GET" /\ distExists
         /\ \/ path \in BuiltAssets
            \/ path = <<>> /\ read # "missing"
    [] stage = "api"    ->
         UnderApiMount(path) /\ <<method, Tail(path)>> \in RouterRoutes
    [] stage = "catchAll:prodTemplate" -> method = "GET"
    [] OTHER -> TRUE

\* the stage Express hands the request to: the first of the stack that
\* answers it; "finalhandler" when every stage calls next()
FirstHandler(method, path, read) ==
  LET idx == {i \in 1..Len(stack) : Handles(stack[i], method, path, read)}
  IN  IF idx = {} THEN "finalhandler" ELSE stack[Min(idx)]

(* ------------------------------ templates ----------------------------- *)

\* client/index.html, the template the development catch-alls read
IndexHtml ==
  <<"<!DOCTYPE html>", "<head>", "<div id=root>",
    "src=/src/main.tsx", "</body>">>

\* dist/client/index.html, the template of the production build
DistIndexHtml ==
  <<"<!DOCTYPE html>", "<head>", "<div id=root>",
    "src=/assets/app.js", "</body>">>

\* the inline template of the SSR development server
SsrTemplate ==
  <<"<!DOCTYPE html>", "<html>", "<head>", "<body>", "<div id=root>",
    "<!--ssr-outlet-->", "</div>", "src=/client/main.tsx", "</body>",
    "</html>">>

\* tokens nanoid() can return
NanoIds == {"id1", "id2"}

RECURSIVE ExpandReplacement(_, _, _, _)
\* the replacement string of String.prototype.replace is a template: $$
\* stands for '$', $& for the matched text, $` and $' for the text before
\* and after the match
ExpandReplacement(replacement, before, matched, after) ==
  IF replacement = <<>> THEN <<>>
  ELSE (CASE Head(replacement) = "$$" -> <<"$">>
          [] Head(replacement) = "$&" -> <<matched>>
          [] Head(replacement) = "$`" -> before
          [] Head(replacement) = "$'" -> after
          [] OTHER -> <<Head(replacement)>>)
       \o ExpandReplacement(Tail(replacement), before, matched, after)

\* String.prototype.replace with a string pattern: the first occurrence only
ReplaceFirst(doc, pattern, replacement) ==
  LET idx == {i \in 1..Len(doc) : doc[i] = pattern}
  IN  IF idx = {} THEN doc
      ELSE SubSeq(doc, 1, Min(idx) - 1)
           \o ExpandReplacement(replacement, SubSeq(doc, 1, Min(idx) - 1),
                                pattern, SubSeq(doc, Min(idx) + 1, Len(doc)))
           \o SubSeq(doc, Min(idx) + 1, Len(doc))

\* a plausible slip: the transform rewrites the head away
transformIndexHtmlDropsHead(doc) ==
  ReplaceFirst(doc, "<head>", <<"src=/@vite/client">>)

\* vite.transformIndexHtml: injects the HMR client into the head
transformIndexHtml(doc) ==
  ReplaceFirst(doc, "<head>", <<"<head>", "src=/@vite/client">>)

(* ---------------------------- SSR renderer ---------------------------- *)

Pages == {"HomePage", "AboutPage", "ComponentsPage", "ApiDemoPage",
          "NotFoundPage"}

\* <Routes> of client/App.tsx under <StaticRouter location={location}>
RoutePage(location) ==
  CASE location = <<>>             -> "HomePage"
    [] location = <<"about">>      -> "AboutPage"
    [] location = <<"components">> -> "ComponentsPage"
    [] location = <<"api-demo">>   -> "ApiDemoPage"
    [] OTHER                       -> "NotFoundPage"

\* renderToString(<StaticRouter><App/></StaticRouter>): a lazy page whose
\* module has not resolved suspends and <Suspense> emits its fallback
AppHtml(location) ==
  <<"<div app>", "<Navigation>", "<main>",
    IF lazy[RoutePage(location)] = "resolved"
    THEN RoutePage(location) ELSE "<LoadingFallback>",
    "</main>", "</div>">>

\* the fallback markup of render's catch block
FallbackHtml(location) ==
  <<"<div error>", "Rendering Error", "Failed to render route:">>
  \o location \o <<"</div>">>

\* a plausible slip: render without its try/catch
renderUncaught(location, viewThrows) ==
  [threw  |-> viewThrows,
   html   |-> IF viewThrows THEN <<>> ELSE AppHtml(location),
   logged |-> {}]

\* render(location) of server/render.tsx
render(location, viewThrows) ==
  IF viewThrows
  THEN [threw  |-> FALSE,
        html   |-> FallbackHtml(location),
        logged |-> {[msg |-> "SSR render failed for route", path |-> location]}]
  ELSE [threw  |-> FALSE,
        html   |-> AppHtml(location),
        logged |-> IF nodeEnv # "production"
                   THEN {[msg |-> "SSR render completed", path |-> location]}
                   ELSE {}]

\* the first render of a lazy page starts the import() of its module
LazyAfterRender(location, viewThrows) ==
  IF ~viewThrows /\ lazy[RoutePage(location)] = "uninit"
  THEN [lazy EXCEPT ![RoutePage(location)] = "pending"]
  ELSE lazy


(* ------------------------------ user store ---------------------------- *)

\* a user record; createdAt is -1 where the property is absent
User(id, name, email, createdAt) ==
  [id |-> id, name |-> name, email |-> email, createdAt |-> createdAt]

\* the three seeded users of the mock database
SeedUsers ==
  << User(1, <<"J","o","h","n"," ","D","o","e">>, <<"j","o","h","n","@","e","x","a","m","p","l","e",".","c","o","m">>, -1),
     User(2, <<"J","a","n","e"," ","S","m","i","t","h">>, <<"j","a","n","e","@","e","x","a","m","p","l","e",".","c","o","m">>, -1),
     User(3, <<"B","o","b"," ","J","o","h","n","s","o","n">>, <<"b","o","b","@","e","x","a","m","p","l","e",".","c","o","m">>, -1) >>

\* values of req.body.name a client can send
NameInputs ==
  { Undefined, Num(7), Str(<<>>), Str(<<" ">>), Str(<<" ","A","d","a"," ">>) }

\* values of req.body.email a client can send
EmailInputs ==
  { Undefined, Num(7), Str(<<"b","a","d">>), Str(<<"a","d","a","@","x",".","i","o">>), Str(<<"A","d","a","@","X",".","i","o">>),
    Str(<<"J","o","h","n","@","E","x","a","m","p","l","e",".","c","o","m">>) }

\* a plausible slip: a blank name passes
NameInvalidNoTrim(name) ==
  ~Truthy(name) \/ name.t # "string"

\* !name || typeof name !== 'string' || name.trim().length === 0
NameInvalid(name) ==
  ~Truthy(name) \/ name.t # "string" \/ Len(Trim(name.s)) = 0

\* !email || typeof email !== 'string' || !isValidEmail(email)
EmailInvalid(email) ==
  ~Truthy(email) \/ email.t # "string" \/ ~isValidEmail(email.s)

\* a plausible slip: the duplicate check compares the raw strings
EmailTakenExact(users, email) ==
  \E i \in 1..Len(users) : users[i].email = email

\* mockUsers.find(user => user.email.toLowerCase() === email.toLowerCase())
EmailTaken(users, email) ==
  \E i \in 1..Len(users) :
    ToLowerCase(users[i].email) = ToLowerCase(email)


(* ------------------------- requests and responses --------------------- *)

Req(method, path, name, email) ==
  [method |-> method, path |-> path, name |-> name, email |-> email]

NoReq == Req("", <<>>, Undefined, Undefined)

\* what the environment did to the request: the outcome of the read of
\* index.html, of vite.transformIndexHtml, whether a view threw in render,
\* and whether a statement of an API handler's try block threw
Env(read, transform, viewThrows) ==
  [read |-> read, transform |-> transform, viewThrows |-> viewThrows,
   handlerThrows |-> FALSE]

NoEnv == Env("n/a", "n/a", FALSE)

\* a JSON response body: its keys and the values of those the model reads
NoJson ==
  [keys |-> {}, status |-> "", env |-> "", timestamp |-> 0,
   success |-> FALSE, error |-> "", data |-> <<>>, count |-> 0,
   message |-> ""]

\* a response: sent counts the responses the handler wrote itself,
\* nexts its calls of next(e); status 0 means no response was written
Res(status, ctype, by) ==
  [status |-> status, ctype |-> ctype, by |-> by, html |-> <<>>,
   text |-> "", json |-> NoJson, logged |-> {}, sent |-> 1, nexts |-> 0]

NoRes == [Res(0, "", "") EXCEPT !.sent = 0]

\* Express's default error handler, reached by next(e): the status of the
\* error, and the stack trace as body unless the env is 'production'
\* (the app's env setting, read from NODE_ENV once, when express() runs)
DefaultErrorHandler(status, by) ==
  [Res(status, "text/html", by) EXCEPT
     !.text = IF ~isDev THEN "status message"
              ELSE "stack trace",
     !.sent = 0, !.nexts = 1]

\* a synchronous call (fs.readFileSync) keeps the one JavaScript thread
\* until it returns: no handler runs meanwhile
Blocked == reading.sync

Serving == listening /\ Running /\ ~Blocked

\* the catch-all of a stage can go on: no read is under way, or its own is
CanFinishRead(stage) ==
  /\ listening /\ Running
  /\ reading = NoRead \/ reading.stage = stage

Handled(req, env, res) ==
  /\ last' = [req |-> req, env |-> env, res |-> res]
  /\ nreq' = 1 - nreq

\* the values a reading of the clock can return: it never runs backwards
ClockReadings == now..(10 + MaxTicks)

(* --------------------------- asset middleware -------------------------- *)

\* vite.middlewares serving a transformed source module
ViteAsset ==
  /\ Serving
  /\ \E path \in Paths :
       /\ FirstHandler("GET", path, "n/a") = "vite"
       /\ Handled(Req("GET", path, Undefined, Undefined), NoEnv,
                  Res(200, "text/javascript", "vite"))
  /\ UNCHANGED <<demo, inflight, reading, variant, nodeEnv, isDev, distExists,
                 pc, stack, listening, exitCode, mockUsers, now, lazy>>

\* express.static serving a built file, or index.html for the directory "/"
\* (an unreadable index.html is an error that express.static forwards)
StaticAsset ==
  /\ Serving
  /\ \E path \in Paths, read \in ReadOutcomes :
       /\ FirstHandler("GET", path, read) = "static"
       /\ Handled(Req("GET", path, Undefined, Undefined),
                  Env(IF path = <<>> THEN read ELSE "n/a", "n/a", FALSE),
                  IF path # <<>>
                  THEN Res(200, "text/javascript", "static")
                  ELSE IF read = "ok"
                  THEN [Res(200, "text/html", "static") EXCEPT
                          !.html = DistIndexHtml]
                  ELSE DefaultErrorHandler(500, "static"))
  /\ UNCHANGED <<demo, inflight, reading, variant, nodeEnv, isDev, distExists,
                 pc, stack, listening, exitCode, mockUsers, now, lazy>>

(* ------------------------------ API router ---------------------------- *)

\* a plausible slip: the health report counts the stored users
healthDataCountsUsers(t) ==
  [NoJson EXCEPT
     !.keys = {"status", "timestamp", "env", "uptime", "memory"},
     !.status = "ok",
     !.timestamp = t,
     !.env = IF nodeEnv = "unset" THEN "development" ELSE nodeEnv,
     !.count = Len(mockUsers)]

\* a plausible slip: the status field reports something else than "ok"
healthDataDegraded(t) ==
  [NoJson EXCEPT
     !.keys = {"status", "timestamp", "env", "uptime", "memory"},
     !.status = "degraded",
     !.timestamp = t,
     !.env = IF nodeEnv = "unset" THEN "development" ELSE nodeEnv]

\* const healthData = { status, timestamp, env, uptime, memory }
healthData(t) ==
  [NoJson EXCEPT
     !.keys = {"status", "timestamp", "env", "uptime", "memory"},
     !.status = "ok",
     !.timestamp = t,
     !.env = IF nodeEnv = "unset" THEN "development" ELSE nodeEnv]

\* router.get('/health'): res.json(healthData) sets no status, Express
\* answers 200
GetHealth ==
  /\ Serving
  /\ FirstHandler("GET", <<"api", "health">>, "n/a") = "api"
  /\ \E t \in ClockReadings :
       /\ now' = t
       /\ Handled(Req("GET", <<"api", "health">>, Undefined, Undefined),
            NoEnv,
            [Res(200, "application/json", "api") EXCEPT
               !.json = healthData(t)])
  /\ UNCHANGED <<demo, inflight, reading, variant, nodeEnv, isDev, distExists,
                 pc, stack, listening, exitCode, mockUsers, lazy>>

\* a plausible slip: the response built from a copy of the store taken
\* when the module loaded
GetUsersSnapshot ==
  /\ Serving
  /\ FirstHandler("GET", <<"api", "users">>, "n/a") = "api"
  /\ Handled(Req("GET", <<"api", "users">>, Undefined, Undefined), NoEnv,
       [Res(200, "application/json", "api") EXCEPT
          !.json = [NoJson EXCEPT
             !.keys = {"success", "data", "count"},
             !.success = TRUE,
             !.data = SeedUsers,
             !.count = Len(SeedUsers)]])
  /\ UNCHANGED <<demo, inflight, reading, variant, nodeEnv, isDev, distExists,
                 pc, stack, listening, exitCode, mockUsers, now, lazy>>

\* router.get('/users')
GetUsers ==
  /\ Serving
  /\ FirstHandler("GET", <<"api", "users">>, "n/a") = "api"
  /\ Handled(Req("GET", <<"api", "users">>, Undefined, Undefined), NoEnv,
       [Res(200, "application/json", "api") EXCEPT
          !.json = [NoJson EXCEPT
             !.keys = {"success", "data", "count"},
             !.success = TRUE,
             !.data = mockUsers,
             !.count = Len(mockUsers)]])
  /\ UNCHANGED <<demo, inflight, reading, variant, nodeEnv, isDev, distExists,
                 pc, stack, listening, exitCode, mockUsers, now, lazy>>

ErrorJson(status, message) ==
  [Res(status, "application/json", "api") EXCEPT
     !.json = [NoJson EXCEPT !.keys = {"success", "error"},
                             !.error = message]]

\* the fields an error message of POST /api/users names
FieldsNamed(message) ==
  CASE message = "Name is required and must be a non-empty string"
         -> {"name"}
    [] message = "Valid email address is required" -> {"email"}
    [] OTHER -> {}

\* const newUser = { id: Date.now(), name: name.trim(),
\*                   email: email.toLowerCase().trim(), createdAt: ... }
NewUser(name, email, t) ==
  User(t, Trim(name.s), Trim(ToLowerCase(email.s)), t)

\* router.post('/users'), for the e-mail values clients send
PostUsersOn(emails) ==
  /\ Serving
  /\ FirstHandler("POST", <<"api", "users">>, "n/a") = "api"
  /\ \E name \in NameInputs, email \in emails :
       LET req == Req("POST", <<"api", "users">>, name, email) IN
       IF NameInvalid(name)
       THEN /\ Handled(req, NoEnv, ErrorJson(400,
                 "Name is required and must be a non-empty string"))
            /\ UNCHANGED <<mockUsers, now>>
       ELSE IF EmailInvalid(email)
       THEN /\ Handled(req, NoEnv, ErrorJson(400,
                 "Valid email address is required"))
            /\ UNCHANGED <<mockUsers, now>>
       ELSE IF EmailTaken(mockUsers, email.s)
       THEN /\ Handled(req, NoEnv, ErrorJson(409,
                 "User with this email already exists"))
            /\ UNCHANGED <<mockUsers, now>>
       ELSE \E t \in ClockReadings :
            /\ mockUsers' = Append(mockUsers, NewUser(name, email, t))
            /\ now' = t
            /\ Handled(req, NoEnv,
                 [Res(201, "application/json", "api") EXCEPT
                    !.json = [NoJson EXCEPT
                       !.keys = {"success", "data", "message"},
                       !.success = TRUE,
                       !.data = <<NewUser(name, email, t)>>,
                       !.message = "User created successfully"]])
  /\ UNCHANGED <<demo, inflight, reading, variant, nodeEnv, isDev, distExists,
                 pc, stack, listening, exitCode, lazy>>

\* router.post('/users')
PostUsers == PostUsersOn(EmailInputs)

\* the status the handler of POST /api/users answers with, given the
\* store its duplicate check searches
PostStatus(users, name, email) ==
  IF NameInvalid(name) \/ EmailInvalid(email) THEN 400
  ELSE IF EmailTaken(users, email.s) THEN 409
  ELSE 201

\* a plausible slip: a suspension point (an await) between the duplicate
\* check and the push, so that the check has searched the store as it was
\* when the request arrived
CheckedStoreStale(users, seen) == SubSeq(users, 1, seen)

\* the store the duplicate check searches: the handler is synchronous, the
\* check and the push run in one turn of the event loop
CheckedStore(users, seen) == users

\* the clients, and a client that has sent nothing
Clients == 1..MaxClients

Idle == [phase |-> "idle", name |-> Undefined, email |-> Undefined,
         seen |-> 0, status |-> 0]

\* the bodies the clients of a race send
RaceNames == {Str(<<" ">>), Str(<<" ","A","d","a"," ">>)}

RaceEmails == {Str(<<"a","d","a","@","x",".","i","o">>),
               Str(<<"A","d","a","@","X",".","i","o">>)}

(* ------------------------- catch-all handlers -------------------------- *)

\* outcomes of vite.transformIndexHtml, which runs once the read succeeded
TransformOutcomes(read) ==
  IF read = "ok" THEN {"ok", "throws", "logsError"} ELSE {"n/a"}

\* server/app.ts (development) and server/dev.ts (SPA form):
\* readFileSync, transformIndexHtml, 200; on a throw ssrFixStacktrace, next(e)
CatchAllDevTemplate ==
  /\ CanFinishRead("catchAll:devTemplate")
  /\ reading' = NoRead
  /\ \E method \in Methods, path \in Paths, read \in ReadOutcomes :
       /\ FirstHandler(method, path, read) = "catchAll:devTemplate"
       /\ \E tr \in TransformOutcomes(read) :
          LET req == Req(method, path, Undefined, Undefined) IN
          IF read # "ok"
          THEN Handled(req, Env(read, "n/a", FALSE),
                 DefaultErrorHandler(500, "catchAll:devTemplate"))
          ELSE IF tr = "throws"
          THEN Handled(req, Env("ok", tr, FALSE),
                 DefaultErrorHandler(500, "catchAll:devTemplate"))
          ELSE Handled(req, Env("ok", tr, FALSE),
                 [Res(200, "text/html", "catchAll:devTemplate") EXCEPT
                    !.html = transformIndexHtml(IndexHtml)])
  /\ UNCHANGED <<demo, inflight, variant, nodeEnv, isDev, distExists, pc,
                 stack, listening, exitCode, mockUsers, now, lazy>>

\* server/app.ts (production): app.get('*') with try / catch -> 500
CatchAllProdTemplate ==
  /\ CanFinishRead("catchAll:prodTemplate")
  /\ reading' = NoRead
  /\ \E path \in Paths, read \in ReadOutcomes :
       /\ FirstHandler("GET", path, read) = "catchAll:prodTemplate"
       /\ LET req == Req("GET", path, Undefined, Undefined) IN
          IF read # "ok"
          THEN Handled(req, Env(read, "n/a", FALSE),
                 [Res(500, "", "catchAll:prodTemplate") EXCEPT
                    !.text = "Internal Server Error",
                    !.logged = {[msg |-> "Static file serving error",
                                 path |-> path]}])
          ELSE Handled(req, Env("ok", "n/a", FALSE),
                 [Res(200, "text/html", "catchAll:prodTemplate") EXCEPT
                    !.html = DistIndexHtml])
  /\ UNCHANGED <<demo, inflight, variant, nodeEnv, isDev, distExists, pc,
                 stack, listening, exitCode, mockUsers, now, lazy>>

\* setupVite: fs.promises.readFile, the nanoid cache buster,
\* transformIndexHtml; the custom logger's error() calls process.exit(1)
CatchAllViteTemplate ==
  /\ CanFinishRead("catchAll:viteTemplate")
  /\ reading' = NoRead
  /\ \E method \in Methods, path \in Paths, read \in ReadOutcomes :
       /\ FirstHandler(method, path, read) = "catchAll:viteTemplate"
       /\ \E tr \in TransformOutcomes(read),
             id \in (IF read = "ok" THEN NanoIds ELSE {"none"}) :
          LET req == Req(method, path, Undefined, Undefined) IN
          IF read # "ok"
          THEN /\ Handled(req, Env(read, "n/a", FALSE),
                    DefaultErrorHandler(500, "catchAll:viteTemplate"))
               /\ UNCHANGED exitCode
          ELSE IF tr = "throws"
          THEN /\ Handled(req, Env("ok", tr, FALSE),
                    DefaultErrorHandler(500, "catchAll:viteTemplate"))
               /\ UNCHANGED exitCode
          ELSE IF tr = "logsError"
          THEN /\ Handled(req, Env("ok", tr, FALSE),
                    [NoRes EXCEPT !.by = "catchAll:viteTemplate"])
               /\ exitCode' = 1
          ELSE /\ Handled(req, Env("ok", tr, FALSE),
                    [Res(200, "text/html", "catchAll:viteTemplate") EXCEPT
                       !.html = transformIndexHtml(
                          ReplaceFirst(IndexHtml, "src=/src/main.tsx",
                                       <<"src=/src/main.tsx?v=", id>>))])
               /\ UNCHANGED exitCode
  /\ UNCHANGED <<demo, inflight, variant, nodeEnv, isDev, distExists, pc,
                 stack, listening, mockUsers, now, lazy>>

\* serveStatic: app.use('*') with res.sendFile(index.html); sendFile hands
\* its error to next(err): 404 for a missing file, 500 for an unreadable one
CatchAllSendFile ==
  /\ CanFinishRead("catchAll:sendFile")
  /\ reading' = NoRead
  /\ \E method \in Methods, path \in Paths, read \in ReadOutcomes :
       /\ FirstHandler(method, path, read) = "catchAll:sendFile"
       /\ LET req == Req(method, path, Undefined, Undefined) IN
          CASE read = "ok" ->
                 Handled(req, Env("ok", "n/a", FALSE),
                   [Res(200, "text/html", "catchAll:sendFile") EXCEPT
                      !.html = DistIndexHtml])
            [] read = "missing" ->
                 Handled(req, Env("missing", "n/a", FALSE),
                   DefaultErrorHandler(404, "catchAll:sendFile"))
            [] read = "unreadable" ->
                 Handled(req, Env("unreadable", "n/a", FALSE),
                   DefaultErrorHandler(500, "catchAll:sendFile"))
  /\ UNCHANGED <<demo, inflight, variant, nodeEnv, isDev, distExists, pc,
                 stack, listening, exitCode, mockUsers, now, lazy>>

\* server/dev.ts (SSR form): inline template, transformIndexHtml,
\* render(url), template.replace('<!--ssr-outlet-->', appHtml), 200
CatchAllSsr ==
  /\ Serving
  /\ \E method \in Methods, path \in Paths :
       /\ FirstHandler(method, path, "n/a") = "catchAll:ssrTemplate"
       /\ \E tr \in TransformOutcomes("ok"), viewThrows \in BOOLEAN :
          LET req == Req(method, path, Undefined, Undefined)
              out == render(path, viewThrows)
          IN
          IF tr = "throws"
          THEN /\ Handled(req, Env("n/a", tr, FALSE),
                    DefaultErrorHandler(500, "catchAll:ssrTemplate"))
               /\ UNCHANGED lazy
          ELSE IF out.threw
          THEN /\ Handled(req, Env("n/a", tr, viewThrows),
                    DefaultErrorHandler(500, "catchAll:ssrTemplate"))
               /\ lazy' = LazyAfterRender(path, viewThrows)
          ELSE /\ Handled(req, Env("n/a", tr, viewThrows),
                    [Res(200, "text/html", "catchAll:ssrTemplate") EXCEPT
                       !.html = ReplaceFirst(transformIndexHtml(SsrTemplate),
                                             "<!--ssr-outlet-->", out.html),
                       !.logged = out.logged])
               /\ lazy' = LazyAfterRender(path, viewThrows)
  /\ UNCHANGED <<demo, inflight, reading, variant, nodeEnv, isDev, distExists,
                 pc, stack, listening, exitCode, mockUsers, now>>

\* no stage answered: Express's final handler replies 404
NotFound ==
  /\ Serving
  /\ \E method \in Methods, path \in Paths, read \in ReadOutcomes :
       /\ FirstHandler(method, path, read) = "finalhandler"
       /\ Handled(Req(method, path, Undefined, Undefined), NoEnv,
            [Res(404, "text/html", "finalhandler") EXCEPT
               !.text = "status message", !.sent = 0])
  /\ UNCHANGED <<demo, inflight, reading, variant, nodeEnv, isDev, distExists,
                 pc, stack, listening, exitCode, mockUsers, now, lazy>>

(* ------------------------------ environment --------------------------- *)

\* the import() started by a lazy page resolves
LoadChunk ==
  /\ Running
  /\ \E page \in Pages :
       /\ lazy[page] = "pending"
       /\ lazy' = [lazy EXCEPT ![page] = "resolved"]
  /\ UNCHANGED <<demo, inflight, reading, variant, nodeEnv, isDev, distExists,
                 pc, stack, listening, exitCode, mockUsers, now, nreq, last>>

(* ---------------------------- specification --------------------------- *)

\* dist/client is read in production only: the model tracks it there
(* --------------------------- the API demo page ------------------------- *)

\* the keys of the loading map: one per kind of call
Keys == {"health", "users", "createUser"}

\* the value null of the error and success states
Null == "null"

\* the two input fields of the form, as typed
Form(name, email) == [name |-> name, email |-> email]

\* useState({ name: '', email: '' })
EmptyForm == Form(<<>>, <<>>)

\* what a visitor types into the form
TypedForms ==
  { Form(<<" ","A","d","a"," ">>, <<"a","d","a","@","x",".","i","o">>),
    Form(<<" ","A","d","a"," ">>, <<" ">>) }

\* a call of handleApiCall: where it stands, the body it sent, and the
\* response (or the rejection of fetch) once there is one
Call(phase, body) ==
  [phase |-> phase, body |-> body, ok |-> FALSE, error |-> "",
   data |-> <<>>, count |-> 0]

NoCall == Call("idle", EmptyForm)

\* the state of ApiDemoPage after its first render: the useState defaults
\* (loading starts as {}: no key is set), no call under way
InitPage ==
  [users |-> <<>>, healthData |-> FALSE,
   loading |-> [k \in Keys |-> "unset"],
   error |-> Null, success |-> Null, newUser |-> EmptyForm,
   calls |-> [k \in Keys |-> NoCall]]

Init ==
  /\ variant \in Variants
  /\ nodeEnv \in {"unset", "production"}
  /\ isDev = (nodeEnv # "production")
  /\ distExists \in (IF DevMode THEN {FALSE} ELSE BOOLEAN)
  /\ pc = 1
  /\ stack = <<>>
  /\ listening = FALSE
  /\ exitCode = -1
  /\ mockUsers = SeedUsers
  /\ now = 10
  /\ lazy = [p \in Pages |-> "uninit"]
  /\ nreq = 0
  /\ last = [req |-> NoReq, env |-> NoEnv, res |-> NoRes]
  /\ reading = NoRead
  /\ inflight = [c \in Clients |-> Idle]
  /\ demo = InitPage

Next ==
  \/ UseParsers \/ CreateViteServer \/ UseViteMiddlewares \/ registerRoutes
  \/ CheckDist \/ UseStatic \/ UseCatchAll \/ Listen \/ StartupFailed
  \/ ViteAsset \/ StaticAsset \/ GetHealth \/ GetUsers \/ PostUsers
  \/ CatchAllDevTemplate \/ CatchAllProdTemplate \/ CatchAllViteTemplate
  \/ CatchAllSendFile \/ CatchAllSsr \/ NotFound
  \/ LoadChunk

Spec == Init /\ [][Next]_vars

(* --------------------- POST requests in flight at once ----------------- *)

\* a POST /api/users waits for the handler: express.json() has read its
\* body (an asynchronous read), seen is the size of the store at that time
HandlePost(c) ==
  /\ Serving /\ inflight[c].phase = "arrived"
  /\ FirstHandler("POST", <<"api", "users">>, "n/a") = "api"
  /\ LET name   == inflight[c].name
         email  == inflight[c].email
         req    == Req("POST", <<"api", "users">>, name, email)
         status == PostStatus(CheckedStore(mockUsers, inflight[c].seen),
                              name, email)
     IN  /\ IF status = 201
            THEN \E t \in ClockReadings :
                   /\ mockUsers' = Append(mockUsers, NewUser(name, email, t))
                   /\ now' = t
                   /\ Handled(req, NoEnv,
                        [Res(201, "application/json", "api") EXCEPT
                           !.json = [NoJson EXCEPT
                              !.keys = {"success", "data", "message"},
                              !.success = TRUE,
                              !.data = <<NewUser(name, email, t)>>,
                              !.message = "User created successfully"]])
            ELSE /\ UNCHANGED <<mockUsers, now>>
                 /\ Handled(req, NoEnv, ErrorJson(status,
                      IF NameInvalid(name)
                      THEN "Name is required and must be a non-empty string"
                      ELSE IF EmailInvalid(email)
                      THEN "Valid email address is required"
                      ELSE "User with this email already exists"))
         /\ inflight' = [inflight EXCEPT
                           ![c] = [@ EXCEPT !.phase = "done",
                                            !.status = status]]
  /\ UNCHANGED <<demo, reading, variant, nodeEnv, isDev, distExists, pc,
                 stack, listening, exitCode, lazy>>

\* a client sends a POST /api/users; all clients use the same address,
\* in one case or another
Arrive(c) ==
  /\ Serving /\ inflight[c].phase = "idle"
  /\ \E name \in RaceNames, email \in RaceEmails :
       inflight' = [inflight EXCEPT
                      ![c] = [phase |-> "arrived", name |-> name,
                              email |-> email, seen |-> Len(mockUsers),
                              status |-> 0]]
  /\ UNCHANGED <<demo, reading, variant, nodeEnv, isDev, distExists, pc,
                 stack, listening, exitCode, mockUsers, now, lazy, nreq, last>>

\* the bootstrap and the clients that post at the same time
NextRace ==
  \/ UseParsers \/ CreateViteServer \/ UseViteMiddlewares \/ registerRoutes
  \/ CheckDist \/ UseStatic \/ UseCatchAll \/ Listen \/ StartupFailed
  \/ \E c \in Clients : Arrive(c)
  \/ \E c \in Clients : HandlePost(c)
  \/ GetUsers

\* the program with several POST /api/users in flight at once
SpecRace == Init /\ [][NextRace]_vars

(* ------------------ the user store with more clients ------------------- *)

\* a second address that no seeded user has
MoreEmailInputs ==
  EmailInputs \cup {Str(<<"b","o","@","y",".","i","o">>)}

\* router.post('/users') with the wider set of bodies
PostUsersMore == PostUsersOn(MoreEmailInputs)

\* the bootstrap and the two user endpoints
NextStore ==
  \/ UseParsers \/ CreateViteServer \/ UseViteMiddlewares \/ registerRoutes
  \/ CheckDist \/ UseStatic \/ UseCatchAll \/ Listen \/ StartupFailed
  \/ GetUsers \/ PostUsersMore

\* the program serving the clients of the user API only
SpecStore == Init /\ [][NextStore]_vars

(* ------------------- the template read, as a step ---------------------- *)

\* how a catch-all reads its template: fs.readFileSync (server/app.ts in
\* both modes, server/dev.ts) or fs.promises.readFile / res.sendFile
ReadIsSync(stage) ==
  stage \in {"catchAll:devTemplate", "catchAll:prodTemplate"}

\* a catch-all is called and issues the read of its template; the rest of
\* the handler is the catch-all action of the stage
BeginTemplateRead ==
  /\ Serving /\ reading = NoRead
  /\ \E method \in Methods, path \in Paths, read \in ReadOutcomes :
       /\ FirstHandler(method, path, read) = CatchAllStage
       /\ CatchAllStage # "catchAll:ssrTemplate"
       /\ reading' = [stage |-> CatchAllStage,
                      sync  |-> ReadIsSync(CatchAllStage)]
  /\ UNCHANGED <<demo, inflight, variant, nodeEnv, isDev, distExists, pc,
                 stack, listening, exitCode, mockUsers, now, lazy, nreq, last>>

\* the bootstrap, the catch-alls with their read as a step of its own, and
\* requests that can arrive meanwhile
NextLoop ==
  \/ UseParsers \/ CreateViteServer \/ UseViteMiddlewares \/ registerRoutes
  \/ CheckDist \/ UseStatic \/ UseCatchAll \/ Listen \/ StartupFailed
  \/ GetHealth \/ GetUsers
  \/ BeginTemplateRead
  \/ CatchAllDevTemplate \/ CatchAllProdTemplate \/ CatchAllViteTemplate
  \/ CatchAllSendFile

\* the program with requests interleaved at the template read
SpecLoop == Init /\ [][NextLoop]_vars

(* --------------- an exception inside an API handler -------------------- *)

\* a plausible slip: no try / catch, the exception reaches Express's
\* default error handler
ApiFailureUncaught(message, logMsg, path) ==
  DefaultErrorHandler(500, "api")

\* the catch block of an API handler: console.error(logMsg, error);
\* res.status(500).json({ success: false, error: message })
ApiFailure(message, logMsg, path) ==
  [ErrorJson(500, message) EXCEPT
     !.logged = {[msg |-> logMsg, path |-> path]}]

\* router.get('/users') when res.json throws inside the try block
GetUsersThrows ==
  /\ Serving
  /\ FirstHandler("GET", <<"api", "users">>, "n/a") = "api"
  /\ Handled(Req("GET", <<"api", "users">>, Undefined, Undefined),
             [NoEnv EXCEPT !.handlerThrows = TRUE],
             ApiFailure("Failed to fetch users", "Error fetching users:",
                        <<"api", "users">>))
  /\ UNCHANGED <<demo, inflight, reading, variant, nodeEnv, isDev, distExists,
                 pc, stack, listening, exitCode, mockUsers, now, lazy>>

\* router.post('/users') when a statement of the try block throws: before
\* the store is touched, or in res.status(201).json after the push
PostUsersThrows ==
  /\ Serving
  /\ FirstHandler("POST", <<"api", "users">>, "n/a") = "api"
  /\ \E name \in NameInputs, email \in EmailInputs, afterPush \in BOOLEAN :
       /\ afterPush => /\ ~NameInvalid(name) /\ ~EmailInvalid(email)
                       /\ ~EmailTaken(mockUsers, email.s)
       /\ IF afterPush
          THEN \E t \in ClockReadings :
                 /\ mockUsers' = Append(mockUsers, NewUser(name, email, t))
                 /\ now' = t
          ELSE UNCHANGED <<mockUsers, now>>
       /\ Handled(Req("POST", <<"api", "users">>, name, email),
                  [NoEnv EXCEPT !.handlerThrows = TRUE],
                  ApiFailure("Internal server error while creating user",
                             "Error creating user:", <<"api", "users">>))
  /\ UNCHANGED <<demo, inflight, reading, variant, nodeEnv, isDev, distExists,
                 pc, stack, listening, exitCode, lazy>>

\* the bootstrap and the API router
NextFault ==
  \/ UseParsers \/ CreateViteServer \/ UseViteMiddlewares \/ registerRoutes
  \/ CheckDist \/ UseStatic \/ UseCatchAll \/ Listen \/ StartupFailed
  \/ GetHealth \/ GetUsers \/ PostUsers
  \/ GetUsersThrows \/ PostUsersThrows

\* the program when statements inside the API handlers can throw
SpecFault == Init /\ [][NextFault]_vars

(* ------------------ NODE_ENV assigned while serving -------------------- *)

\* process.env is a live, writable object: code running in the process
\* assigns process.env.NODE_ENV after the server started
SetNodeEnv ==
  /\ Serving
  /\ \E v \in {"unset", "production"} : v # nodeEnv /\ nodeEnv' = v
  /\ UNCHANGED <<demo, inflight, reading, variant, isDev, distExists, pc, stack,
                 listening, exitCode, mockUsers, now, lazy, nreq, last>>

\* the bootstrap and the handlers that look at the mode
NextEnv ==
  \/ UseParsers \/ CreateViteServer \/ UseViteMiddlewares \/ registerRoutes
  \/ CheckDist \/ UseStatic \/ UseCatchAll \/ Listen \/ StartupFailed
  \/ GetHealth \/ CatchAllSsr \/ LoadChunk
  \/ SetNodeEnv

\* the program in an environment that assigns NODE_ENV at run time
SpecEnv == Init /\ [][NextEnv]_vars

(* ---------------------- registerRoutes called twice ------------------- *)

\* registerRoutes(app) called twice in a row: each call runs
\* app.use('/api', apiRoutes), which appends the router to the stack
registerRoutesTwice ==
  /\ Starting /\ Op = "api"
  /\ stack' = Append(Append(stack, "api"), "api")
  /\ pc' = pc + 1
  /\ UNCHANGED <<demo, inflight, reading, variant, nodeEnv, isDev, distExists,
                 listening, exitCode, mockUsers, now, lazy, nreq, last>>

NextTwice ==
  \/ UseParsers \/ CreateViteServer \/ UseViteMiddlewares
  \/ registerRoutesTwice
  \/ CheckDist \/ UseStatic \/ UseCatchAll \/ Listen \/ StartupFailed
  \/ ViteAsset \/ StaticAsset \/ GetHealth \/ GetUsers \/ PostUsers
  \/ CatchAllDevTemplate \/ CatchAllProdTemplate \/ CatchAllViteTemplate
  \/ CatchAllSendFile \/ CatchAllSsr \/ NotFound
  \/ LoadChunk

\* the program with every call of registerRoutes made twice
SpecTwice == Init /\ [][NextTwice]_vars

(* ----------------- the API demo page and the server ------------------- *)

\* `Fetched ${data.count || data.data.length} users successfully!`
FetchedMessage(count, length) ==
  LET n == IF count # 0 THEN count ELSE length IN
  CASE n = 0 -> "Fetched 0 users successfully!"
    [] n = 1 -> "Fetched 1 users successfully!"
    [] n = 2 -> "Fetched 2 users successfully!"
    [] n = 3 -> "Fetched 3 users successfully!"
    [] n = 4 -> "Fetched 4 users successfully!"
    [] OTHER -> "Fetched 5 users successfully!"

\* handleApiCall up to its first await: setLoading(true), setError(null),
\* setSuccess(null), then fetch() sends the request
StartCall(k, body) ==
  demo' = [demo EXCEPT !.loading[k] = "true", !.error = Null,
                       !.success = Null, !.calls[k] = Call("sent", body)]

\* disabled={loading[k]}: the button of a call can be clicked
ButtonEnabled(k) == demo.loading[k] # "true"

\* !newUser.name.trim() || !newUser.email.trim()
FormBlank(form) == Trim(form.name) = <<>> \/ Trim(form.email) = <<>>

\* onChange of the two inputs: the visitor types a name and an address
TypeForm ==
  /\ \E form \in TypedForms : demo' = [demo EXCEPT !.newUser = form]
  /\ UNCHANGED <<variant, nodeEnv, isDev, distExists, pc, stack,
                 listening, exitCode, lazy, nreq, last, reading, inflight, mockUsers, now>>

\* a click on "Check health": fetchHealthCheck up to its await
ClickHealth ==
  /\ ButtonEnabled("health")
  /\ StartCall("health", EmptyForm)
  /\ UNCHANGED <<variant, nodeEnv, isDev, distExists, pc, stack,
                 listening, exitCode, lazy, nreq, last, reading, inflight, mockUsers, now>>

\* a click on "Fetch users": fetchUsers up to its await
ClickFetchUsers ==
  /\ ButtonEnabled("users")
  /\ StartCall("users", EmptyForm)
  /\ UNCHANGED <<variant, nodeEnv, isDev, distExists, pc, stack,
                 listening, exitCode, lazy, nreq, last, reading, inflight, mockUsers, now>>

\* a click on "Create user": createUser up to its await; the button is
\* disabled while the call runs or a field is blank
ClickCreateUser ==
  /\ ButtonEnabled("createUser") /\ ~FormBlank(demo.newUser)
  /\ IF FormBlank(demo.newUser)
     THEN demo' = [demo EXCEPT
                     !.error = "Please fill in both name and email fields"]
     ELSE StartCall("createUser", demo.newUser)
  /\ UNCHANGED <<variant, nodeEnv, isDev, distExists, pc, stack,
                 listening, exitCode, lazy, nreq, last, reading, inflight, mockUsers, now>>

\* the server answers the page's GET /api/health
ServeHealth ==
  /\ Serving /\ demo.calls["health"].phase = "sent"
  /\ FirstHandler("GET", <<"api", "health">>, "n/a") = "api"
  /\ demo' = [demo EXCEPT !.calls["health"] =
                 [@ EXCEPT !.phase = "answered", !.ok = TRUE]]
  /\ UNCHANGED <<variant, nodeEnv, isDev, distExists, pc, stack,
                 listening, exitCode, lazy, nreq, last, reading, inflight, mockUsers, now>>

\* the server answers the page's GET /api/users with the store as it is
ServeUsers ==
  /\ Serving /\ demo.calls["users"].phase = "sent"
  /\ FirstHandler("GET", <<"api", "users">>, "n/a") = "api"
  /\ demo' = [demo EXCEPT !.calls["users"] =
                 [@ EXCEPT !.phase = "answered", !.ok = TRUE,
                           !.data = mockUsers, !.count = Len(mockUsers)]]
  /\ UNCHANGED <<variant, nodeEnv, isDev, distExists, pc, stack,
                 listening, exitCode, lazy, nreq, last, reading, inflight, mockUsers, now>>

\* the server answers the page's POST /api/users
ServeCreate ==
  /\ Serving /\ demo.calls["createUser"].phase = "sent"
  /\ FirstHandler("POST", <<"api", "users">>, "n/a") = "api"
  /\ LET name   == Str(demo.calls["createUser"].body.name)
         email  == Str(demo.calls["createUser"].body.email)
         status == PostStatus(mockUsers, name, email)
     IN  IF status = 201
         THEN \E t \in ClockReadings :
                /\ mockUsers' = Append(mockUsers, NewUser(name, email, t))
                /\ now' = t
                /\ demo' = [demo EXCEPT !.calls["createUser"] =
                     [@ EXCEPT !.phase = "answered", !.ok = TRUE,
                               !.data = <<NewUser(name, email, t)>>]]
         ELSE /\ UNCHANGED <<mockUsers, now>>
              /\ demo' = [demo EXCEPT !.calls["createUser"] =
                   [@ EXCEPT !.phase = "answered", !.ok = FALSE,
                      !.error =
                        IF NameInvalid(name)
                        THEN "Name is required and must be a non-empty string"
                        ELSE IF EmailInvalid(email)
                        THEN "Valid email address is required"
                        ELSE "User with this email already exists"]]
  /\ UNCHANGED <<variant, nodeEnv, isDev, distExists, pc, stack,
                 listening, exitCode, lazy, nreq, last, reading, inflight>>

\* fetch() rejects: the request did not reach a server
FetchFails ==
  /\ \E k \in Keys :
       /\ demo.calls[k].phase = "sent"
       /\ demo' = [demo EXCEPT !.calls[k] =
                      [@ EXCEPT !.phase = "answered", !.ok = FALSE,
                                !.error = "Failed to fetch"]]
  /\ UNCHANGED <<variant, nodeEnv, isDev, distExists, pc, stack,
                 listening, exitCode, lazy, nreq, last, reading, inflight, mockUsers, now>>

\* the response of a call reaches the page: the rest of handleApiCall
\* (on a response that is not ok: setError; in either case
\* setLoading(false)) and then the rest of the function that awaited it,
\* which run without another task of the page in between
Complete(k) ==
  LET c == demo.calls[k] IN
  /\ c.phase = "answered"
  /\ demo' =
       IF ~c.ok
       THEN [demo EXCEPT !.error = c.error, !.loading[k] = "false",
                         !.calls[k] = NoCall]
       ELSE IF k = "health"
       THEN [demo EXCEPT !.loading[k] = "false", !.calls[k] = NoCall,
                         !.healthData = TRUE,
                         !.success = "Health check successful!"]
       ELSE IF k = "users"
       THEN [demo EXCEPT !.loading[k] = "false", !.calls[k] = NoCall,
                         !.users = c.data,
                         !.success = FetchedMessage(c.count, Len(c.data))]
       ELSE [demo EXCEPT !.loading[k] = "false", !.calls[k] = NoCall,
                         !.users = demo.users \o c.data,
                         !.newUser = EmptyForm,
                         !.success = "User created successfully!"]
  /\ UNCHANGED <<variant, nodeEnv, isDev, distExists, pc, stack,
                 listening, exitCode, lazy, nreq, last, reading, inflight, mockUsers, now>>

\* the bootstrap, the page's clicks, and its calls on their way
NextPage ==
  \/ UseParsers \/ CreateViteServer \/ UseViteMiddlewares \/ registerRoutes
  \/ CheckDist \/ UseStatic \/ UseCatchAll \/ Listen \/ StartupFailed
  \/ TypeForm \/ ClickHealth \/ ClickFetchUsers \/ ClickCreateUser
  \/ ServeHealth \/ ServeUsers \/ ServeCreate \/ FetchFails
  \/ \E k \in Keys : Complete(k)

\* the program with the API demo page open in one browser
SpecPage == Init /\ [][NextPage]_vars

\* the stages a statement of the bootstrap appends to the stack
StagesOf(op) ==
  CASE op = "parsers"  -> <<"json", "urlencoded">>
    [] op = "vite"     -> <<"vite">>
    [] op = "api"      -> <<"api">>
    [] op = "static"   -> <<"static">>
    [] op = "catchAll" -> <<CatchAllStage>>
    [] OTHER           -> <<>>

RECURSIVE BuiltStack(_)
\* the stack after the first n statements of the bootstrap, each run once
BuiltStack(n) ==
  IF n = 0 THEN <<>> ELSE BuiltStack(n - 1) \o StagesOf(Program[n])

\* a plausible slip: a handler answers and calls next() as well
CallsNextAlways(stage) == TRUE

\* does a handler that answered hand the request on with next(): none
\* does (res.json / res.send / res.end and return)
CallsNext(stage) == FALSE

RECURSIVE Walk(_, _, _, _)
\* Express walking a stack: the stages that run a handler which answers
\* the request, in order
Walk(stk, method, path, read) ==
  IF stk = <<>> THEN <<>>
  ELSE IF Handles(Head(stk), method, path, read)
  THEN <<Head(stk)>> \o (IF CallsNext(Head(stk))
                         THEN Walk(Tail(stk), method, path, read)
                         ELSE <<>>)
  ELSE Walk(Tail(stk), method, path, read)

(* ====================================================================== *)
(* Properties                                                             *)
(* ====================================================================== *)

\* the position of a stage in the stack, 0 when it is not registered
Pos(stage) ==
  IF \E i \in 1..Len(stack) : stack[i] = stage
  THEN Min({i \in 1..Len(stack) : stack[i] = stage})
  ELSE 0

\* the position of the catch-all, 0 when none is registered
CatchAllPos ==
  IF \E i \in 1..Len(stack) : stack[i] \in CatchAllStages
  THEN Min({i \in 1..Len(stack) : stack[i] \in CatchAllStages})
  ELSE 0

\* the asset stage of the mode: Vite's middleware or express.static
AssetPos == IF DevMode THEN Pos("vite") ELSE Pos("static")

\* the request handled last is one of the three routes of the API router
LastIsApiRoute ==
  \/ last.req.method = "GET"  /\ last.req.path = <<"api", "health">>
  \/ last.req.method = "GET"  /\ last.req.path = <<"api", "users">>
  \/ last.req.method = "POST" /\ last.req.path = <<"api", "users">>

RECURSIVE IsSubseq(_, _)
\* a occurs in b, in order, not necessarily contiguously
IsSubseq(a, b) ==
  IF a = <<>> THEN TRUE
  ELSE IF b = <<>> THEN FALSE
  ELSE IF Head(a) = Head(b) THEN IsSubseq(Tail(a), Tail(b))
  ELSE IsSubseq(a, Tail(b))

(* ------------------------------- C1 ----------------------------------- *)

\* C1: in every bootstrap and both modes the API router is registered
\* before the catch-all, it is registered once the server listens, and a
\* request for GET /api/health, GET /api/users or POST /api/users is
\* answered by the API router, never by the catch-all.
C1_ApiBeforeCatchAll ==
  /\ CatchAllPos # 0 => (Pos("api") # 0 /\ Pos("api") < CatchAllPos)
  /\ listening => Pos("api") # 0
  /\ LastIsApiRoute => last.res.by = "api"

\* an API request has been answered by a production server and by a
\* development server, with the catch-all in the stack behind the router
C1_Witness ==
  /\ listening /\ CatchAllPos > Pos("api")
  /\ last.req.method = "POST" /\ last.req.path = <<"api", "users">>
  /\ last.res.by = "api" /\ last.res.status = 201
  /\ variant = "app" /\ ~isDev

(* ------------------------------- C2 ----------------------------------- *)

\* C2: a production start with dist/client missing never binds the port
\* (and ends with exit status 1).
C2_MissingDistNeverListens ==
  (~DevMode /\ ~distExists) => ~listening

(* ------------------------------- C3 ----------------------------------- *)

\* the template a stage serves
TemplateOf(stage) ==
  CASE stage \in {"catchAll:devTemplate", "catchAll:viteTemplate"} -> IndexHtml
    [] stage = "catchAll:ssrTemplate" -> SsrTemplate
    [] OTHER -> DistIndexHtml

\* the template without its insertion point and its entry script reference
StaticParts(doc) ==
  SelectSeq(doc, LAMBDA tok :
    tok \notin {"<!--ssr-outlet-->", "src=/src/main.tsx"})

\* the last request is a GET for a route path: outside /api, and not the
\* name of a file of the build or of a source module
LastIsPageGet ==
  /\ last.req.method = "GET" /\ ~UnderApiMount(last.req.path)
  /\ last.req.path \notin BuiltAssets \cup DevModules

LastIsHtmlPage ==
  /\ last.res.status = 200
  /\ last.res.ctype = "text/html"
  /\ IsSubseq(StaticParts(TemplateOf(last.res.by)), last.res.html)

\* C3 as stated: every GET for a route path outside /api is answered 200
\* text/html with the static parts of the template.
C3_EveryPageGetIsHtml ==
  LastIsPageGet => LastIsHtmlPage

\* C3 as amended: a GET for a route path outside /api whose template read
\* succeeds and whose development transform neither throws nor reports an
\* error is answered 200 text/html with the static parts of the template,
\* in every bootstrap and both modes.
C3_PageGetIsHtmlWhenTemplateLoads ==
  ( /\ LastIsPageGet
    /\ last.env.read \in {"ok", "n/a"}
    /\ last.env.transform \in {"ok", "n/a"} )
  => LastIsHtmlPage

\* a route of the application served by the development catch-all
C3_Witness ==
  /\ LastIsPageGet /\ last.req.path = <<"nope">>
  /\ last.env.read = "ok" /\ last.env.transform = "ok"
  /\ last.res.by = "catchAll:viteTemplate"
  /\ last.res.status = 200

(* ------------------------------- C4 ----------------------------------- *)

\* C4: GET /api/health can be asked in every state of a listening server,
\* and is answered 200 with a JSON body that has the keys status,
\* timestamp and env, with status "ok".
C4_HealthAlwaysOk ==
  /\ Serving => ENABLED GetHealth
  /\ (last.req.method = "GET" /\ last.req.path = <<"api", "health">>)
       => /\ last.res.status = 200
          /\ last.res.ctype = "application/json"
          /\ {"status", "timestamp", "env"} \subseteq last.res.json.keys
          /\ last.res.json.status = "ok"

\* a health check answered after a user was created
C4_Witness ==
  /\ last.req.path = <<"api", "health">> /\ last.res.status = 200
  /\ Len(mockUsers) > Len(SeedUsers)

(* ------------------------------- C5 ----------------------------------- *)

\* this step handles a POST /api/users
PostHandled ==
  /\ nreq' # nreq
  /\ last'.req.method = "POST" /\ last'.req.path = <<"api", "users">>
  /\ last'.res.by = "api"

\* a string field that is not blank
C5_ValidName(v) ==
  v.t = "string" /\ \E i \in 1..Len(v.s) : ~IsSpace(v.s[i])

C5_ValidEmail(v) == v.t = "string" /\ isValidEmail(v.s)

\* a user stored before this step has the e-mail of the request, ignoring
\* case
C5_Stored(from) ==
  \E i \in from..Len(mockUsers) :
    ToLowerCase(mockUsers[i].email) = ToLowerCase(last'.req.email.s)

\* C5 as stated: any POST with the e-mail of a user created earlier,
\* whatever else it carries, is answered 409.
C5_SameEmailAlways409 ==
  [][ ( /\ PostHandled
        /\ last'.req.email.t = "string"
        /\ C5_Stored(Len(SeedUsers) + 1) )
      => last'.res.status = 409 ]_vars

\* C5 as amended: a POST with a valid name and a valid e-mail that no
\* stored user has (ignoring case) is answered 201 with the created record
\* (name trimmed, e-mail lower-cased), an id and a creation timestamp, and
\* the record is stored; stored users are never removed or changed; and a
\* POST with a valid name and the e-mail of a stored user (ignoring case)
\* is answered 409.
C5_CreateThenConflict ==
  [][ /\ Len(mockUsers') >= Len(mockUsers)
      /\ \A i \in 1..Len(mockUsers) : mockUsers'[i] = mockUsers[i]
      /\ ( /\ PostHandled
           /\ C5_ValidName(last'.req.name)
           /\ C5_ValidEmail(last'.req.email) )
         => IF C5_Stored(1)
            THEN /\ last'.res.status = 409
                 /\ mockUsers' = mockUsers
            ELSE /\ last'.res.status = 201
                 /\ Len(last'.res.json.data) = 1
                 /\ LET u == last'.res.json.data[1] IN
                      /\ u.name = Trim(last'.req.name.s)
                      /\ u.email = ToLowerCase(last'.req.email.s)
                      /\ u.id = now'
                      /\ u.createdAt = now'
                      /\ mockUsers' = Append(mockUsers, u) ]_vars

\* a second POST with the e-mail of a created user, in other case, got 409
C5_Witness ==
  /\ Len(mockUsers) = Len(SeedUsers) + 1
  /\ last.req.method = "POST" /\ last.res.status = 409
  /\ last.req.email.t = "string"
  /\ last.req.email.s # mockUsers[Len(mockUsers)].email
  /\ ToLowerCase(last.req.email.s) = mockUsers[Len(mockUsers)].email

(* ------------------------------- C6 ----------------------------------- *)

LastIsPost ==
  /\ last.req.method = "POST" /\ last.req.path = <<"api", "users">>
  /\ last.res.by = "api"

\* the fields of the last request body that are invalid
C6_InvalidFields ==
  (IF C5_ValidName(last.req.name) THEN {} ELSE {"name"})
  \cup (IF C5_ValidEmail(last.req.email) THEN {} ELSE {"email"})

\* C6 as stated: invalid input is answered 400 and the error message names
\* every invalid field.
C6_ErrorNamesEveryInvalidField ==
  (LastIsPost /\ C6_InvalidFields # {})
  => /\ last.res.status = 400
     /\ C6_InvalidFields \subseteq FieldsNamed(last.res.json.error)

\* C6 as amended: invalid input is answered 400 with a JSON error message
\* that names the first invalid field in the order name, email: name when
\* the name is invalid (also when the e-mail is invalid too), email
\* otherwise.
C6_ErrorNamesFirstInvalidField ==
  (LastIsPost /\ C6_InvalidFields # {})
  => /\ last.res.status = 400
     /\ last.res.json.keys = {"success", "error"}
     /\ last.res.json.success = FALSE
     /\ FieldsNamed(last.res.json.error) =
          IF "name" \in C6_InvalidFields THEN {"name"} ELSE {"email"}

\* a body with a blank name and a malformed e-mail was refused
C6_Witness ==
  /\ LastIsPost /\ C6_InvalidFields = {"name", "email"}
  /\ last.req.name.t = "string" /\ last.req.email.t = "string"
  /\ last.res.status = 400

(* ------------------------------- C7 ----------------------------------- *)

\* the last request was handed to a catch-all
LastInCatchAll == last.res.by \in CatchAllStages

\* C7: a catch-all request whose template read fails (file missing or
\* unreadable) is answered 500, and no request handed to a catch-all ends
\* the process, in every bootstrap and both modes.
C7_TemplateFailureIs500AndServerLives ==
  /\ (LastInCatchAll /\ last.env.read \in {"missing", "unreadable"})
       => last.res.status = 500
  /\ LastInCatchAll => Running

(* ------------------------------- C8 ----------------------------------- *)

\* C8: when a view throws while render runs for an SSR request, render
\* returns the fallback fragment and logs the path: the handler gets no
\* exception (it calls next(e) never), and answers 200 with the fallback
\* fragment in the page.
C8_RenderNeverThrows ==
  (last.res.by = "catchAll:ssrTemplate" /\ last.env.viewThrows)
  => /\ last.res.status = 200
     /\ last.res.sent = 1 /\ last.res.nexts = 0
     /\ IsSubseq(<<"<div id=root>", "<div error>", "Rendering Error",
                   "Failed to render route:", "</div>", "</div>">>,
                 last.res.html)
     /\ \E e \in last.res.logged :
          e.msg = "SSR render failed for route" /\ e.path = last.req.path

\* an SSR request during which a view threw
C8_Witness ==
  /\ last.res.by = "catchAll:ssrTemplate" /\ last.env.viewThrows
  /\ last.req.path = <<"nope">>
  /\ last.res.status = 200

(* ------------------------------- C9 ----------------------------------- *)

\* C9: two successive SSR answers for the same route path, both on the
\* success path of render or both on its fallback path, carry the same
\* HTML.
C9_RenderDeterministic ==
  [][ ( /\ nreq' # nreq
        /\ last.res.by = "catchAll:ssrTemplate"
        /\ last'.res.by = "catchAll:ssrTemplate"
        /\ last.res.status = 200 /\ last'.res.status = 200
        /\ last.req.path = last'.req.path
        /\ last.env.viewThrows = last'.env.viewThrows )
      => last'.res.html = last.res.html ]_vars

(* ------------------------------- C10 ---------------------------------- *)

\* C10 as stated: in every bootstrap the asset stage of the mode comes
\* first, then the API routes, then the catch-all.
C10_AssetsThenApiThenCatchAll ==
  listening => /\ 0 < AssetPos /\ AssetPos < Pos("api")
               /\ Pos("api") < CatchAllPos

\* C10 as amended: in server/app.ts and server/dev.ts the asset stage of
\* the mode (Vite's middleware in development, express.static in
\* production) comes first, then the API routes, then the catch-all; in
\* the bootstrap built on setupVite / serveStatic the API routes come
\* first, then the asset stage, then the catch-all.  In every bootstrap
\* the catch-all is last.
C10_StageOrderByBootstrap ==
  listening =>
    /\ 0 < AssetPos /\ 0 < Pos("api")
    /\ AssetPos < CatchAllPos /\ Pos("api") < CatchAllPos
    /\ CatchAllPos = Len(stack)
    /\ IF variant = "unified" THEN Pos("api") < AssetPos
                              ELSE AssetPos < Pos("api")

\* a listening development server of server/dev.ts with the three stages
C10_Witness ==
  /\ listening /\ variant = "devSpa"
  /\ Pos("vite") = 1 /\ Pos("api") = 4 /\ CatchAllPos = 5

(* ------------------------------- C11 ---------------------------------- *)

\* C11: with registerRoutes called twice the stack answers every request
\* (method, path, outcome of the template read) as the stack built with
\* one call does: the same single stage answers, no request is answered
\* by two stages, and a request for an API route is answered once, by the
\* router.
C11_RegisterTwiceSameAsOnce ==
  pc > 0 =>
    /\ \A method \in Methods, path \in Paths, read \in ReadOutcomes :
         LET twice == Walk(stack, method, path, read) IN
         /\ twice = Walk(BuiltStack(pc - 1), method, path, read)
         /\ Len(twice) <= 1
         /\ FirstHandler(method, path, read) =
              IF twice = <<>> THEN "finalhandler" ELSE Head(twice)
    /\ LastIsApiRoute => (last.res.by = "api" /\ last.res.sent = 1)

\* a user was created through a stack that holds the router twice
C11_Witness ==
  /\ Cardinality({i \in 1..Len(stack) : stack[i] = "api"}) = 2
  /\ last.req.method = "POST" /\ last.res.status = 201
  /\ Len(mockUsers) = Len(SeedUsers) + 1

(* ------------------------------- C12 ---------------------------------- *)

\* the mode fixed at process start, as the health response words it
StartupEnv == IF isDev THEN "development" ELSE "production"

\* C12: every mode-dependent decision made while serving uses the value
\* NODE_ENV had at process start: the env field of a health response is
\* that value, and render logs its success message exactly when that
\* value is not production, whatever NODE_ENV is assigned afterwards.
C12_ModeFixedAtStart ==
  /\ (last.req.path = <<"api", "health">> /\ last.res.by = "api")
       => last.res.json.env = StartupEnv
  /\ ( /\ last.res.by = "catchAll:ssrTemplate" /\ last.res.status = 200
       /\ ~last.env.viewThrows )
       => (last.res.logged # {} <=> isDev)

(* ------------------------------- C13 ---------------------------------- *)

C13_Answers(by, req, env) ==
  CASE by = "vite"   -> {Res(200, "text/javascript", "vite")}
    [] by = "static" ->
         {IF req.path # <<>> THEN Res(200, "text/javascript", "static")
          ELSE IF env.read = "ok"
          THEN [Res(200, "text/html", "static") EXCEPT !.html = DistIndexHtml]
          ELSE DefaultErrorHandler(500, "static")}
    [] by = "api" ->
         {[Res(200, "application/json", "api") EXCEPT
             !.json = [NoJson EXCEPT
               !.keys = {"status", "timestamp", "env", "uptime", "memory"},
               !.status = "ok", !.timestamp = t,
               !.env = IF nodeEnv = "unset" THEN "development" ELSE nodeEnv]]
          : t \in 10..(10 + MaxTicks)}
    [] by = "catchAll:devTemplate" ->
         {IF env.read # "ok" \/ env.transform = "throws"
          THEN DefaultErrorHandler(500, by)
          ELSE [Res(200, "text/html", by) EXCEPT
                  !.html = transformIndexHtml(IndexHtml)]}
    [] by = "catchAll:viteTemplate" ->
         IF env.read # "ok" \/ env.transform = "throws"
         THEN {DefaultErrorHandler(500, by)}
         ELSE IF env.transform = "logsError" THEN {[NoRes EXCEPT !.by = by]}
         ELSE {[Res(200, "text/html", by) EXCEPT
                  !.html = transformIndexHtml(
                     ReplaceFirst(IndexHtml, "src=/src/main.tsx",
                                  <<"src=/src/main.tsx?v=", id>>))]
               : id \in NanoIds}
    [] by = "catchAll:prodTemplate" ->
         {IF env.read # "ok"
          THEN [Res(500, "", by) EXCEPT
                  !.text = "Internal Server Error",
                  !.logged = {[msg |-> "Static file serving error",
                               path |-> req.path]}]
          ELSE [Res(200, "text/html", by) EXCEPT !.html = DistIndexHtml]}
    [] by = "catchAll:sendFile" ->
         {CASE env.read = "ok" ->
                 [Res(200, "text/html", by) EXCEPT !.html = DistIndexHtml]
            [] env.read = "missing" -> DefaultErrorHandler(404, by)
            [] OTHER -> DefaultErrorHandler(500, by)}
    [] OTHER ->
         {[Res(404, "text/html", "finalhandler") EXCEPT
             !.text = "status message", !.sent = 0]}

\* this step handles a request of the mock user API or an SSR page request
C13_StoreOrSsrHandled ==
  \/ last'.res.by = "api" /\ last'.req.path = <<"api", "users">>
  \/ last'.res.by = "catchAll:ssrTemplate"

C14_StackFrozenOnceListening ==
  [][ listening => /\ stack' = stack
                   /\ stack = BuiltStack(Len(Program)) ]_vars

\* a listening server that has created a user and then answered a request
\* through its catch-all
C14_Witness ==
  /\ listening /\ variant = "unified"
  /\ Len(mockUsers) > Len(SeedUsers)
  /\ last.res.by = "catchAll:sendFile"
  /\ stack = <<"json", "urlencoded", "api", "static", "catchAll:sendFile">>

(* ------------------------------- C15 ---------------------------------- *)

\* the last request met an exception in its catch-all: the template read
\* failed or the transform threw
LastCatchAllFailed ==
  /\ LastInCatchAll
  /\ \/ last.env.read \in {"missing", "unreadable"}
     \/ last.env.transform = "throws"

\* C15: in development mode an exception met while reading or
\* transforming the template is passed to next() exactly once and the
\* handler writes no response itself; in production mode an exception in
\* the catch-all ends in a 500 response with a fixed body that carries no
\* detail of the error.
C15_ErrorsByMode ==
  LastCatchAllFailed =>
    IF DevMode
    THEN last.res.nexts = 1 /\ last.res.sent = 0
    ELSE /\ last.res.status = 500
         /\ last.res.text \in {"Internal Server Error", "status message"}

(* ------------------------------- C16 ---------------------------------- *)

\* C16: an exception inside the handler of GET /api/users or of POST
\* /api/users is answered by the handler itself with status 500 and a
\* JSON body { success: false, error: <fixed message> }, and is logged;
\* the body carries no stack trace and nothing of the exception.
C16_ApiExceptionIsGeneric500 ==
  (last.res.by = "api" /\ last.env.handlerThrows)
  => /\ last.res.status = 500
     /\ last.res.sent = 1 /\ last.res.nexts = 0
     /\ last.res.ctype = "application/json"
     /\ last.res.json.keys = {"success", "error"}
     /\ last.res.json.success = FALSE
     /\ last.res.json.error =
          IF last.req.method = "GET" THEN "Failed to fetch users"
          ELSE "Internal server error while creating user"
     /\ last.res.text = ""
     /\ \E l \in last.res.logged : l.path = last.req.path

\* res.json threw after the new user had been pushed to the store
C16_Witness ==
  /\ last.res.by = "api" /\ last.env.handlerThrows
  /\ last.req.method = "POST" /\ last.res.status = 500
  /\ Len(mockUsers) = Len(SeedUsers) + 1

(* ------------------------------- C17 ---------------------------------- *)

\* the cache-busting tokens a served document carries on its entry script
TokensOf(doc) ==
  {doc[i + 1] : i \in {k \in 1..(Len(doc) - 1) :
                         doc[k] = "src=/src/main.tsx?v="}}

\* the response is a template served by a development catch-all
DevTemplateServed(r) ==
  /\ r.by \in {"catchAll:devTemplate", "catchAll:viteTemplate",
               "catchAll:ssrTemplate"}
  /\ r.status = 200

\* C17: every template served by a development catch-all carries a
\* cache-busting token on its entry script reference, and the token of a
\* served template differs from the token of the template served before.
C17_FreshTokenPerRead ==
  [][ (nreq' # nreq /\ DevTemplateServed(last'.res))
      => /\ TokensOf(last'.res.html) # {}
         /\ DevTemplateServed(last.res)
              => TokensOf(last'.res.html) \cap TokensOf(last.res.html) = {}
    ]_vars

(* ------------------------------- C18 ---------------------------------- *)

\* C18: while the template read of a catch-all request is under way,
\* another request can be handled: the health check is answered.
C18_ReadNeverBlocks ==
  (reading # NoRead /\ Running) => ENABLED GetHealth

(* ------------------------------- C19 ---------------------------------- *)

\* the paths <Routes> declares a page for
DeclaredRoutes == {<<>>, <<"about">>, <<"components">>, <<"api-demo">>}

\* C19: a request for a path that is no declared route of the application,
\* handed to a catch-all whose template loads, is answered 200; in the SSR
\* server the fragment render returns for it is the not-found view.
C19_UnknownPathRendersNotFound ==
  ( /\ LastInCatchAll
    /\ last.req.path \notin DeclaredRoutes
    /\ last.env.read \in {"ok", "n/a"}
    /\ last.env.transform \in {"ok", "n/a"}
    /\ ~last.env.viewThrows )
  => /\ last.res.status = 200
     /\ last.res.by = "catchAll:ssrTemplate"
          => IsSubseq(<<"<div id=root>", "<div app>", "NotFoundPage",
                        "</div>">>, last.res.html)

(* ------------------------------- C20 ---------------------------------- *)

\* the document with its first occurrence of the marker replaced by the
\* fragment, character for character
C20_Splice(doc, marker, fragment) ==
  LET k == Min({i \in 1..Len(doc) : doc[i] = marker})
  IN  SubSeq(doc, 1, k - 1) \o fragment \o SubSeq(doc, k + 1, Len(doc))

\* C20: the body of a page the SSR catch-all serves is the transformed
\* template with <!--ssr-outlet--> replaced by the fragment render
\* returned, verbatim, and everything else of the template unchanged.
C20_FragmentSplicedVerbatim ==
  [][ ( /\ nreq' # nreq
        /\ last'.res.by = "catchAll:ssrTemplate"
        /\ last'.res.status = 200 )
      => last'.res.html =
           C20_Splice(transformIndexHtml(SsrTemplate), "<!--ssr-outlet-->",
                      render(last'.req.path, last'.env.viewThrows).html)
    ]_vars

(* ------------------------------- C21 ---------------------------------- *)

\* segments of a request path that are HTML elements when emitted as
\* they stand
MarkupSegments == {"<script>"}

\* C21: no page the SSR catch-all serves holds an element that came from
\* the request path: the fragment render returns never carries the path
\* unescaped.
C21_FragmentCarriesNoRequestMarkup ==
  (last.res.by = "catchAll:ssrTemplate" /\ last.res.status = 200)
  => \A i \in 1..Len(last.res.html), j \in 1..Len(last.req.path) :
       last.req.path[j] \in MarkupSegments
         => last.res.html[i] # last.req.path[j]

(* ------------------------------- C22 ---------------------------------- *)

\* C22: no two stored users have e-mails that are equal ignoring case,
\* and the e-mail of every user a POST created is lower-case and has no
\* white space around it.
C22_EmailsUniqueAndNormalised ==
  /\ \A i, j \in 1..Len(mockUsers) :
       i # j => ToLowerCase(mockUsers[i].email) # ToLowerCase(mockUsers[j].email)
  /\ \A i \in (Len(SeedUsers) + 1)..Len(mockUsers) :
       /\ \A k \in 1..Len(mockUsers[i].email) :
            /\ \A u \in 1..26 : mockUsers[i].email[k] # Upper[u]
            /\ ~IsSpace(mockUsers[i].email[k])
       /\ mockUsers[i].email # <<>>

\* with two created users in the store, a POST with the e-mail of a
\* seeded user in another case was refused
C22_Witness ==
  /\ Len(mockUsers) = Len(SeedUsers) + 2
  /\ last.req.method = "POST" /\ last.res.status = 409
  /\ last.req.email.t = "string"
  /\ ToLowerCase(last.req.email.s) = mockUsers[1].email
  /\ last.req.email.s # mockUsers[1].email

(* ------------------------------- C23 ---------------------------------- *)

\* C23: no two stored users have the same id.
C23_IdsUnique ==
  \A i, j \in 1..Len(mockUsers) :
    i # j => mockUsers[i].id # mockUsers[j].id

(* ------------------------------- C24 ---------------------------------- *)

\* this step handles a request of the given method, answered by the router
ApiHandled(method) ==
  /\ nreq' # nreq
  /\ last'.req.method = method /\ last'.res.by = "api"

\* C24 as stated: a POST answered 400, 409 or 500 and every GET leave the
\* store as it was.
C24_ErrorsLeaveStoreUnchanged ==
  [][ ( \/ ApiHandled("GET")
        \/ ApiHandled("POST") /\ last'.res.status \in {400, 409, 500} )
      => mockUsers' = mockUsers ]_vars

\* C24 as amended: every GET and every POST answered 400 or 409 leave the
\* store as it was; a POST answered 201 appends the user of its response
\* at the end; a POST answered 500 leaves the store as it was or has
\* appended one user; no step removes, changes or reorders a stored user;
\* GET /api/users answered 200 returns the stored users in insertion
\* order, with count their number.
C24_StoreFrameAndEffect ==
  [][ /\ Len(mockUsers') \in {Len(mockUsers), Len(mockUsers) + 1}
      /\ \A i \in 1..Len(mockUsers) : mockUsers'[i] = mockUsers[i]
      /\ ApiHandled("GET") =>
           /\ mockUsers' = mockUsers
           /\ (last'.req.path = <<"api", "users">> /\ last'.res.status = 200)
                => /\ last'.res.json.data = mockUsers
                   /\ last'.res.json.count = Len(mockUsers)
      /\ (ApiHandled("POST") /\ last'.res.status \in {400, 409})
           => mockUsers' = mockUsers
      /\ (ApiHandled("POST") /\ last'.res.status = 201)
           => mockUsers' = mockUsers \o last'.res.json.data
      /\ ApiHandled("POST") => last'.res.status \in {201, 400, 409, 500}
    ]_vars

\* the list was fetched after a creation whose response write had failed
C24_Witness ==
  /\ last.req.method = "GET" /\ last.req.path = <<"api", "users">>
  /\ last.res.status = 200 /\ ~last.env.handlerThrows
  /\ last.res.json.count = Len(SeedUsers) + 1
  /\ last.res.json.data = mockUsers

(* ------------------------------- C25 ---------------------------------- *)

\* the clients whose POST has been answered with the given status
AnsweredWith(status) ==
  {c \in Clients : inflight[c].phase = "done" /\ inflight[c].status = status}

AllAnswered == \A c \in Clients : inflight[c].phase = "done"

\* C25: of several creation requests in flight at once (POSTs that carry
\* a valid name and the same valid e-mail, ignoring case, which no stored
\* user has), exactly one is answered 201 and all others 409, in every
\* order of arrival and handling; at no time have two been answered 201,
\* whatever the other requests in flight carry.
C25_ValidRaceOneCreated ==
  /\ Cardinality(AnsweredWith(201)) <= 1
  /\ Len(mockUsers) <= Len(SeedUsers) + 1
  /\ ( /\ AllAnswered
       /\ \A c \in Clients : C5_ValidName(inflight[c].name) )
     => /\ Cardinality(AnsweredWith(201)) = 1
        /\ Cardinality(AnsweredWith(409)) = MaxClients - 1

\* two POSTs were in flight together, in different case, and both answered
C25_Witness ==
  /\ AllAnswered
  /\ \A c \in Clients : /\ C5_ValidName(inflight[c].name)
                         /\ inflight[c].seen = Len(SeedUsers)
  /\ inflight[1].email # inflight[2].email
  /\ inflight[1].status = 409 /\ inflight[2].status = 201

(* ------------------------------- C26 ---------------------------------- *)

\* C26: a request handed to a handler of the API router or to a catch-all
\* is completed exactly once: the handler writes one response, or calls
\* next once, never both and never neither.
C26_CompletedExactlyOnce ==
  (last.res.by = "api" \/ LastInCatchAll)
  => last.res.sent + last.res.nexts = 1

(* ------------------------------- C27 ---------------------------------- *)

\* the number of entries of the stack that are in the set
Registered(stages) ==
  Cardinality({i \in 1..Len(stack) : stack[i] \in stages})

\* both body parsers, the asset stage of the mode, the API routes and the
\* catch-all of the bootstrap are on the stack, each once, and nothing else
AssembledOnce ==
  /\ Registered({"json"}) = 1 /\ Registered({"urlencoded"}) = 1
  /\ Registered({IF DevMode THEN "vite" ELSE "static"}) = 1
  /\ Registered({"api"}) = 1
  /\ Registered(CatchAllStages) = 1 /\ Registered({CatchAllStage}) = 1
  /\ Len(stack) = 5

\* C27: in every bootstrap and both modes, the step that calls listen is
\* taken with the body parsers, the asset middleware, the API routes and
\* the catch-all all registered, each exactly once; a request is handled
\* only by a listening server with that complete stack; and no statement
\* of the bootstrap runs after listen.
C27_ListenAfterWholePipeline ==
  [][ /\ (~listening /\ listening') => AssembledOnce /\ pc = Len(Program)
      /\ nreq' # nreq => listening /\ AssembledOnce
      /\ listening => pc' = pc ]_vars

\* a production server of server/app.ts that listens with its five stages
\* and has answered a request through the catch-all
C27_Witness ==
  /\ listening /\ variant = "app" /\ ~DevMode
  /\ stack = <<"json", "urlencoded", "static", "api",
               "catchAll:prodTemplate">>
  /\ last.res.by = "catchAll:prodTemplate" /\ last.res.sent = 1

(* ------------------------------- C28 ---------------------------------- *)

\* the bootstrap's statements in a given mode
ProgramIn(dev) ==
  CASE variant = "app"     -> AppProgram(dev)
    [] variant = "unified" -> UnifiedProgram(dev)
    [] OTHER               -> DevProgram

\* the catch-all the bootstrap registers in a given mode
CatchAllStageIn(dev) ==
  CASE variant = "app"     -> IF dev THEN "catchAll:devTemplate"
                                     ELSE "catchAll:prodTemplate"
    [] variant = "unified" -> IF dev THEN "catchAll:viteTemplate"
                                     ELSE "catchAll:sendFile"
    [] variant = "devSpa"  -> "catchAll:devTemplate"
    [] OTHER               -> "catchAll:ssrTemplate"

RECURSIVE PipelineIn(_, _)
\* the stack the first n statements of the bootstrap build in a given mode
PipelineIn(dev, n) ==
  IF n = 0 THEN <<>>
  ELSE PipelineIn(dev, n - 1) \o
       (IF ProgramIn(dev)[n] = "catchAll" THEN <<CatchAllStageIn(dev)>>
        ELSE StagesOf(ProgramIn(dev)[n]))

\* the kind of the stage a pipeline selects for a request
SelectedKind(stk, method, path, read) ==
  LET w == Walk(stk, method, path, read) IN
  IF w = <<>> THEN "none"
  ELSE IF Head(w) \in CatchAllStages THEN "catchAll"
  ELSE IF Head(w) = "api" THEN "api"
  ELSE "asset"

\* the pipeline of the running bootstrap in the other mode
OtherModeKind(method, path, read) ==
  SelectedKind(PipelineIn(~DevMode, Len(ProgramIn(~DevMode))),
               method, path, read)

\* the kind of the stage that handled the last request
LastKind ==
  IF last.res.by \in CatchAllStages THEN "catchAll"
  ELSE IF last.res.by = "api" THEN "api"
  ELSE IF last.res.by \in {"vite", "static"} THEN "asset"
  ELSE "none"

\* a request was handled by a bootstrap that has two modes, and in neither
\* mode does an asset stage answer it
LastComparable ==
  /\ last.req.method # "" /\ variant \in {"app", "unified"}
  /\ LastKind # "asset"
  /\ OtherModeKind(last.req.method, last.req.path, last.env.read) # "asset"

\* C28: for every request that names no existing static asset, the stage
\* that handles it in the running mode is of the same kind (API handler,
\* catch-all, none) as the stage the pipeline of the same bootstrap in
\* the other mode selects for it.
C28_ModesDispatchAlike ==
  LastComparable =>
    LastKind = OtherModeKind(last.req.method, last.req.path, last.env.read)

(* ------------------------------- C29 ---------------------------------- *)

\* C29: on the API demo page, whatever the interleaving of the three
\* kinds of call and of their responses, the error and the success
\* message are never both set, and a call that is not under way has its
\* loading flag off (false once it has run).
C29_BannersExclusiveLoadingCleared ==
  /\ ~(demo.error # Null /\ demo.success # Null)
  /\ \A k \in Keys :
       demo.calls[k].phase = "idle" => demo.loading[k] \in {"unset", "false"}

(* ------------------------------- C30 ---------------------------------- *)

\* C30: the users state of the API demo page never holds two entries
\* with the same id, whatever the order in which a fetch-users call and a
\* create-user call are handled and their responses arrive.
C30_PageUsersDistinct ==
  \A i, j \in 1..Len(demo.users) :
    i # j => demo.users[i].id # demo.users[j].id

====
